---- MODULE Spec2Model ----
(***************************************************************************)
(* A model of OpenDropBoard (opendrop_board.py), the wrapper the OpenDrop  *)
(* plugin uses to drive the board: the connection session (serial_device,  *)
(* proxy), the channel-to-pin mapping (set_gate, set_source,               *)
(* clear_all_channels, set_channel_state, set_state_of_all_channels) and   *)
(* the identity accessors.                                                 *)
(*                                                                         *)
(* Every public method is one action.  A call records what it did in       *)
(* `calls` (the calls it made on Serial, on the proxy and on the port      *)
(* enumeration, in order) and in `last` (its arguments, its result and the *)
(* state it started from); Return hands the result to the caller and       *)
(* clears both.                                                            *)
(*                                                                         *)
(* Four specifications:                                                    *)
(*   Spec        the session: connect, disconnect, the accessors and       *)
(*               set_state_of_all_channels, from the state after __init__, *)
(*               with transport faults;                                    *)
(*   MapperSpec  one call of a mapper method on a connected board, from a  *)
(*               family of prior pin patterns and over all channels and a  *)
(*               family of state arrays;                                   *)
(*   PluginSpec  the handlers of OpenDropPlugin (__init__.py) that connect *)
(*               and flash: check_device_name_and_version and              *)
(*               on_flash_firmware, each run up to the dialog it waits on  *)
(*               (`handler`) and on from the user's answer;                *)
(*   StepSpec    the step handlers of OpenDropPlugin: on_protocol_run,     *)
(*               on_step_run, the step's timeout, on_protocol_pause and    *)
(*               on_app_options_changed (`step`), with write faults.       *)
(***************************************************************************)
EXTENDS Integers, Sequences, FiniteSets, TLC

VARIABLES
    serial_device,  \* self.serial_device: the Serial handle, or NoDevice (None)
    proxy,          \* self.proxy: "unset" (no attribute yet), "current" (wraps
                    \* serial_device), "stale_open" / "stale_closed" (wraps an
                    \* earlier handle, which is open / closed)
    orphans,        \* open Serial handles self.serial_device no longer names
    pins,           \* level last written to each digital pin of the board
    calls,          \* the external calls the running method made, in order
    last,           \* the running method: arguments, result, state before it
    pc,             \* "idle": no call running; "returned": a call has returned
    handler,        \* the plugin's handler that waits on a dialog, if any
    step            \* the application's running and realtime_mode, the plugin's
                    \* timeout_id, and the timeout source that is pending

vars == <<serial_device, proxy, orphans, pins, calls, last, pc, handler, step>>

----------------------------------------------------------------------------
(* Constants of opendrop_board.py *)

INPUT == 0
OUTPUT == 1
LOW == 0
HIGH == 1

\* connect's default baud_rate
DefaultBaudRate == 115200

\* number_of_channels() returns 68
NumberOfChannels == 68

\* range(2, 19): the pins connect configures as outputs
FirstPin == 2
LastPin == 18

\* Python's None (kept a string so that it compares with port names)
None == "<None>"

----------------------------------------------------------------------------
(* Bounds of the model *)

\* longest state array handed to set_state_of_all_channels in MapperSpec
MaxLen == 69

\* a fault hits one of the first MaxFaultPos calls of its kind
MaxFaultPos == 1

\* open handles that may be left behind by reconnecting
MaxOrphans == 1

\* times on_flash_firmware may be entered before the user stops answering yes
\* to "Update firmware?"
MaxRounds == 1

\* timeouts on_step_run may add
MaxTimers == 2

----------------------------------------------------------------------------
(* Inputs *)

Ports == {"COM1", "COM2"}
BaudRates == {DefaultBaudRate, 9600}

\* what the caller may pass as serial_port: nothing, the string 'None' (str() of
\* an unset application option), or a port name
PortArgs == {None, "None"} \cup Ports

\* what get_serial_ports() may enumerate
PortLists == {<<>>, <<"COM1">>, <<"COM2", "COM1">>}

NoFault == [stage |-> "none", pos |-> 0]

\* the pos-th call of kind `stage` raises, for each stage of `stages`
FaultsAt(stages, n) == {[stage |-> s, pos |-> p] : s \in stages, p \in 1..n}

\* Serial() or Proxy() raises, or one of the first pin_mode or digital_write calls
ConnectFaults ==
    {NoFault} \cup FaultsAt({"Serial", "Proxy"}, 1)
              \cup FaultsAt({"pin_mode", "digital_write"}, MaxFaultPos)

DisconnectFaults == {NoFault} \cup FaultsAt({"terminate", "close"}, 1)

WriteFaults == {NoFault} \cup FaultsAt({"digital_write"}, MaxFaultPos)

QueryFaults == {NoFault} \cup FaultsAt({"properties"}, 1)

\* what the device may report as its name and as its firmware version
DeviceNames == {"open_drop", "other_device"}
DeviceVersions == {"1.2.0", "1.1.9"}

\* a state array of length n whose truthy entries are the channels of `on`
ArrayOf(n, on) == [k \in 1..n |-> IF (k - 1) \in on THEN 1 ELSE 0]

Lens == {0, 1} \cup ((NumberOfChannels - 1)..MaxLen)

\* arrays with at most two truthy entries, shorter than, as long as and longer
\* than the board
MapperArrays ==
    UNION {{ArrayOf(n, {})} \cup {ArrayOf(n, {a, b}) : a, b \in 0..(n - 1)} : n \in Lens}

\* the arrays of the session specification: all off (what the plugin sends to
\* turn the electrodes off), the first channel on, the last channel on
SessionArrays ==
    {ArrayOf(NumberOfChannels, on) : on \in {{}, {0}, {NumberOfChannels - 1}}}

PinSet == FirstPin..LastPin

----------------------------------------------------------------------------
(* serial_device and the properties built on it *)

NoDevice == [is_none |-> TRUE, port |-> None, baudrate |-> 0, is_open |-> FALSE]

\* Serial(serial_port, baudrate=baud_rate): a new, open handle
Serial(serial_port, baud_rate) ==
    [is_none |-> FALSE, port |-> serial_port, baudrate |-> baud_rate, is_open |-> TRUE]

connected(dev) == (~dev.is_none) /\ dev.is_open

port(dev) == IF connected(dev) THEN dev.port ELSE None

\* 0 stands for None: no baud rate of BaudRates equals it
baud_rate(dev) == IF connected(dev) THEN dev.baudrate ELSE 0

----------------------------------------------------------------------------
(* The calls a method makes *)

Call(fn, pin, level, via, i) ==
    [fn |-> fn, pin |-> pin, level |-> level, via |-> via, i |-> i, by |-> "",
     channel |-> -1]

\* marks every call of cs as made by method `by`
Tag(cs, by) == [k \in DOMAIN cs |-> [cs[k] EXCEPT !.by = by]]

\* marks every call of cs as made for channel `channel`
ForChannel(cs, channel) == [k \in DOMAIN cs |-> [cs[k] EXCEPT !.channel = channel]]

\* int(not bool(state))
NotState(state) == IF state # 0 THEN 0 ELSE 1

set_gate(i, state) == Call("digital_write", 2 + i, state, "set_gate", i)

\* the sources start at pin 10, the pin of gate 8
set_source_FromPinTen(i, state) == Call("digital_write", 9 + i, state, "set_source", i)

set_source(i, state) == Call("digital_write", 10 + i, state, "set_source", i)

\* range(1, 9) for the gates too: gate 0 is left as it was
clear_all_channels_SkipGate0 ==
    Tag([k \in 1..8 |-> set_gate(k, LOW)] \o [k \in 1..8 |-> set_source(k, HIGH)],
        "clear_all_channels")

clear_all_channels ==
    Tag([k \in 1..9 |-> set_gate(k - 1, LOW)] \o [k \in 1..8 |-> set_source(k, HIGH)],
        "clear_all_channels")

\* the channels 2 and 3 take the source of the channels 0 and 1
set_channel_state_SameSource(channel, state) ==
    ForChannel(Tag(
        IF channel < 4
            THEN <<set_source(2 * (channel % 2) + 1, NotState(state)), set_gate(0, state)>>
        ELSE <<set_source(((channel - 4) % 8) + 1, NotState(state)),
               set_gate(((channel - 4) \div 8) + 1, state)>>,
        "set_channel_state"), channel)

\* the channels from 4 on start at gate 0, the gate of the channels 0..3
set_channel_state_GateFromZero(channel, state) ==
    ForChannel(Tag(
        IF channel < 2
            THEN <<set_source(2 * channel + 1, NotState(state)), set_gate(0, state)>>
        ELSE IF channel < 4
            THEN <<set_source(2 * channel + 2, NotState(state)), set_gate(0, state)>>
        ELSE <<set_source(((channel - 4) % 8) + 1, NotState(state)),
               set_gate((channel - 4) \div 8, state)>>,
        "set_channel_state"), channel)

set_channel_state(channel, state) ==
    ForChannel(Tag(
        IF channel < 2
            THEN <<set_source(2 * channel + 1, NotState(state)), set_gate(0, state)>>
        ELSE IF channel < 4
            THEN <<set_source(2 * channel + 2, NotState(state)), set_gate(0, state)>>
        ELSE <<set_source(((channel - 4) % 8) + 1, NotState(state)),
               set_gate(((channel - 4) \div 8) + 1, state)>>,
        "set_channel_state"), channel)

\* for channel, state in enumerate(state_array): if state: set_channel_state(...)
RECURSIVE EnumerateFrom(_, _)
EnumerateFrom(state_array, k) ==
    IF k > Len(state_array) THEN <<>>
    ELSE (IF state_array[k] # 0 THEN set_channel_state(k - 1, state_array[k]) ELSE <<>>)
            \o EnumerateFrom(state_array, k + 1)

\* the new pattern is written first and the board cleared afterwards
set_state_of_all_channels_calls_ClearLast(state_array) ==
    EnumerateFrom(state_array, 1) \o clear_all_channels

set_state_of_all_channels_calls(state_array) ==
    clear_all_channels \o EnumerateFrom(state_array, 1)

----------------------------------------------------------------------------
(* The transport: which call raises, and what the completed calls do *)

\* calls that travel over the serial link through the proxy
IsProxyIO(c) == c.fn \in {"pin_mode", "digital_write", "properties"}

\* how many of cs[1..k] are calls of kind fn
RECURSIVE CountOf(_, _, _)
CountOf(cs, k, fn) ==
    IF k = 0 THEN 0
    ELSE CountOf(cs, k - 1, fn) + (IF cs[k].fn = fn THEN 1 ELSE 0)

\* cs[k] raises: it is the call the fault hits, or it goes through a proxy whose
\* handle is closed
Raises(cs, k, fault, live) ==
    \/ cs[k].fn = fault.stage /\ CountOf(cs, k, cs[k].fn) = fault.pos
    \/ IsProxyIO(cs[k]) /\ ~live

\* the index of the first call of cs that raises, 0 when none does
FirstFailure(cs, fault, live) ==
    LET bad == {k \in DOMAIN cs : Raises(cs, k, fault, live)}
    IN IF bad = {} THEN 0 ELSE CHOOSE k \in bad : \A j \in bad : k <= j

\* the calls made (the raising one included) and the calls that completed
Issued(cs, f) == IF f = 0 THEN cs ELSE SubSeq(cs, 1, f)
Completed(cs, f) == IF f = 0 THEN cs ELSE SubSeq(cs, 1, f - 1)

RECURSIVE ApplyWrites(_, _, _)
ApplyWrites(p, cs, k) ==
    IF k > Len(cs) THEN p
    ELSE ApplyWrites(IF cs[k].fn = "digital_write" /\ cs[k].pin \in DOMAIN p
                        THEN [p EXCEPT ![cs[k].pin] = cs[k].level] ELSE p,
                     cs, k + 1)

\* the handle the proxy of board b wraps is open
ProxyLive(b) == \/ b.proxy = "current" /\ connected(b.serial_device)
                \/ b.proxy = "stale_open"

----------------------------------------------------------------------------
(* Pin patterns *)

\* all gates LOW, all sources HIGH
IdlePins == [p \in PinSet |-> IF p <= 10 THEN LOW ELSE HIGH]

\* the pins at power-on
PowerOnPins == [p \in PinSet |-> LOW]

\* the prior patterns of MapperSpec: idle, power-on, every pin HIGH, idle with
\* every pin flipped, and idle with the first or the last channel switched on.
\* set_gate and set_source are public, so every pattern is one the board can be in.
PriorPins ==
    {IdlePins, PowerOnPins, [p \in PinSet |-> HIGH], [p \in PinSet |-> 1 - IdlePins[p]]}
    \cup {ApplyWrites(IdlePins, set_channel_state(c, 1), 1) : c \in {0, NumberOfChannels - 1}}

----------------------------------------------------------------------------
(* State before a call, kept in `last` *)

Pre == [serial_device |-> serial_device, proxy |-> proxy, orphans |-> orphans,
        pins |-> pins]

NoCall == [op |-> "none"]

\* no handler of the plugin waits on a dialog
NoHandler == [at |-> "idle"]

\* no protocol runs, realtime mode is off, self.timeout_id is None (0), no
\* timeout source is pending (0), no timeout was ever added
NoStep == [running |-> FALSE, realtime_mode |-> FALSE, timeout_id |-> 0, timer |-> 0,
           ids |-> 0]

Init ==
    /\ serial_device = NoDevice
    /\ proxy = "unset"
    /\ orphans = 0
    /\ pins = PowerOnPins
    /\ calls = <<>>
    /\ last = NoCall
    /\ pc = "idle"
    /\ handler = NoHandler
    /\ step = NoStep

\* a board connected on COM1 at the default baud rate, in some prior pin pattern
MapperInit ==
    /\ serial_device = Serial("COM1", DefaultBaudRate)
    /\ proxy = "current"
    /\ orphans = 0
    /\ pins \in PriorPins
    /\ calls = <<>>
    /\ last = NoCall
    /\ pc = "idle"
    /\ handler = NoHandler
    /\ step = NoStep

----------------------------------------------------------------------------
(* The mapper methods, called on the board *)

\* what a method called on board b comes to: the board afterwards, the calls
\* made, the result
Outcome(b, cs, result) == [b |-> b, calls |-> cs, result |-> result]

\* the element of a one-element set; {F(x) : x \in {v}} computes v once
The(S) == CHOOSE x \in S : TRUE

\* board b runs the proxy calls cs; without a proxy attribute the first
\* self.proxy raises AttributeError before any call is made
ProxyCalls(b, cs, fault) ==
    IF b.proxy = "unset"
    THEN Outcome(b, <<>>, "AttributeError")
    ELSE The({Outcome([b EXCEPT !.pins = ApplyWrites(b.pins, Completed(cs, f), 1)],
                      Issued(cs, f),
                      IF f = 0 THEN "ok" ELSE "TransportError")
              : f \in {FirstFailure(cs, fault, ProxyLive(b))}})

\* the method `record` names runs the proxy calls cs on self
RunProxyCalls(cs, fault, record) ==
    \E r \in {ProxyCalls(Pre, cs, fault)} :
        /\ calls' = r.calls
        /\ pins' = r.b.pins
        /\ last' = [record EXCEPT !.result = r.result]

set_state_of_all_channels(state_array, fault) ==
    /\ pc = "idle"
    /\ RunProxyCalls(set_state_of_all_channels_calls(state_array), fault,
                     [op |-> "set_state_of_all_channels", state_array |-> state_array,
                      fault |-> fault, result |-> "", pre |-> Pre])
    /\ pc' = "returned"
    /\ UNCHANGED <<serial_device, proxy, orphans, handler, step>>

call_clear_all_channels ==
    /\ pc = "idle"
    /\ RunProxyCalls(clear_all_channels, NoFault,
                     [op |-> "clear_all_channels", result |-> "", pre |-> Pre])
    /\ pc' = "returned"
    /\ UNCHANGED <<serial_device, proxy, orphans, handler, step>>

call_set_channel_state(channel, state) ==
    /\ pc = "idle"
    /\ RunProxyCalls(set_channel_state(channel, state), NoFault,
                     [op |-> "set_channel_state", channel |-> channel, state |-> state,
                      result |-> "", pre |-> Pre])
    /\ pc' = "returned"
    /\ UNCHANGED <<serial_device, proxy, orphans, handler, step>>

----------------------------------------------------------------------------
(* connect *)

\* lines 56-62: the port connect goes for.  Without an explicit port it is the
\* port of the open handle, else the first enumerated port; indexing an empty
\* enumeration raises IndexError.
ResolvePort_NoneOnEmpty(serial_port, dev, ports) ==
    IF serial_port = None \/ serial_port = "None"
    THEN IF port(dev) # None
         THEN [port |-> port(dev), error |-> "", enumerated |-> FALSE]
         ELSE [port |-> IF ports = <<>> THEN None ELSE ports[1],
               error |-> "", enumerated |-> TRUE]
    ELSE [port |-> serial_port, error |-> "", enumerated |-> FALSE]

\* the enumeration is asked before the open handle
ResolvePort_EnumerateFirst(serial_port, dev, ports) ==
    IF serial_port = None \/ serial_port = "None"
    THEN IF ports # <<>>
         THEN [port |-> ports[1], error |-> "", enumerated |-> TRUE]
         ELSE IF port(dev) # None
              THEN [port |-> port(dev), error |-> "", enumerated |-> TRUE]
              ELSE [port |-> None, error |-> "IndexError", enumerated |-> TRUE]
    ELSE [port |-> serial_port, error |-> "", enumerated |-> FALSE]

ResolvePort(serial_port, dev, ports) ==
    IF serial_port = None \/ serial_port = "None"
    THEN IF port(dev) # None
         THEN [port |-> port(dev), error |-> "", enumerated |-> FALSE]
         ELSE IF ports = <<>>
              THEN [port |-> None, error |-> "IndexError", enumerated |-> TRUE]
              ELSE [port |-> ports[1], error |-> "", enumerated |-> TRUE]
    ELSE [port |-> serial_port, error |-> "", enumerated |-> FALSE]

\* line 68: the transport is opened unless the open handle is on this port at
\* this baud rate
NeedsOpen_Always(dev, serial_port, rate) == TRUE

NeedsOpen(dev, serial_port, rate) ==
    ~(port(dev) = serial_port /\ baud_rate(dev) = rate)

\* lines 69-78: Serial(serial_port), Proxy(), the settle delay, pin_mode(pin, OUTPUT) for
\* the pins of range(2, 19), clear_all_channels()
\* the board is cleared before its pins are configured
open_calls_ClearFirst(serial_port) ==
    Tag(<<Call("Serial", 0, 0, serial_port, 0), Call("Proxy", 0, 0, "", 0),
          Call("sleep", 0, 0, "", 0)>>, "connect")
    \o clear_all_channels
    \o Tag([k \in 1..(LastPin - FirstPin + 1) |->
                Call("pin_mode", FirstPin + k - 1, OUTPUT, "proxy", 0)], "connect")

open_calls(serial_port) ==
    Tag(<<Call("Serial", 0, 0, serial_port, 0), Call("Proxy", 0, 0, "", 0),
          Call("sleep", 0, 0, "", 0)>>
        \o [k \in 1..(LastPin - FirstPin + 1) |->
                Call("pin_mode", FirstPin + k - 1, OUTPUT, "proxy", 0)],
        "connect")
    \o clear_all_channels

\* self.proxy after Serial() has returned a new handle and Proxy() has not: the
\* old proxy still wraps the old handle
ProxyLeftBehind(b) ==
    IF b.proxy = "current"
    THEN (IF connected(b.serial_device) THEN "stale_open" ELSE "stale_closed")
    ELSE b.proxy

\* self.control_board.connect(serial_port, baud_rate) on board b
control_board_connect(b, serial_port, rate, ports, fault) ==
    LET r == ResolvePort(serial_port, b.serial_device, ports)
        enum == IF r.enumerated THEN <<Call("get_serial_ports", 0, 0, "", 0)>> ELSE <<>>
    IN IF r.error # ""
       THEN Outcome(b, enum, r.error)
       ELSE IF r.port = None \/ ~NeedsOpen(b.serial_device, r.port, rate)
       THEN Outcome(b, enum, "ok")
       ELSE The({
                LET done == Completed(open_calls(r.port), f)
                    opened == Len(done) >= 1
                    proxied == Len(done) >= 2
                IN Outcome(
                    [serial_device |-> IF opened THEN Serial(r.port, rate)
                                       ELSE b.serial_device,
                     orphans |-> IF opened /\ connected(b.serial_device)
                                 THEN b.orphans + 1 ELSE b.orphans,
                     proxy |-> IF proxied THEN "current"
                               ELSE IF opened THEN ProxyLeftBehind(b) ELSE b.proxy,
                     pins |-> ApplyWrites(b.pins, done, 1)],
                    enum \o Issued(open_calls(r.port), f),
                    IF f = 0 THEN "ok" ELSE "TransportError")
                : f \in {FirstFailure(open_calls(r.port), fault, TRUE)}})

\* the board becomes b
Becomes(b) ==
    /\ serial_device' = b.serial_device
    /\ proxy' = b.proxy
    /\ orphans' = b.orphans
    /\ pins' = b.pins

connect(serial_port, rate, ports, fault) ==
    /\ pc = "idle"
    /\ pc' = "returned"
    /\ \E r \in {control_board_connect(Pre, serial_port, rate, ports, fault)} :
          /\ r.b.orphans <= MaxOrphans
          /\ Becomes(r.b)
          /\ calls' = r.calls
          /\ last' = [op |-> "connect", serial_port |-> serial_port, baud_rate |-> rate,
                      ports |-> ports, fault |-> fault,
                      target |-> ResolvePort(serial_port, serial_device, ports).port,
                      result |-> r.result, pre |-> Pre]
    /\ UNCHANGED <<handler, step>>

\* the inputs connect reads: the enumeration only where get_serial_ports() is
\* called, a fault only where the transport is opened
EnumeratedBy(serial_port) ==
    IF ResolvePort(serial_port, serial_device, <<>>).enumerated THEN PortLists ELSE {<<>>}

FaultsOf(serial_port, rate, ports) ==
    LET r == ResolvePort(serial_port, serial_device, ports)
    IN IF r.error = "" /\ r.port # None /\ NeedsOpen(serial_device, r.port, rate)
       THEN ConnectFaults ELSE {NoFault}

----------------------------------------------------------------------------
(* disconnect *)

\* lines 81-85: terminate the packet watcher, close the handle; whatever is
\* raised (the AttributeError of a missing self.proxy included) is swallowed
disconnect_calls(b) ==
    IF b.proxy = "unset" THEN <<>>
    ELSE Tag(<<Call("terminate", 0, 0, "proxy", 0), Call("close", 0, 0, "serial_device", 0)>>,
             "disconnect")

\* self.control_board.disconnect() on board b
control_board_disconnect(b, fault) ==
    LET cs == disconnect_calls(b)
        f == FirstFailure(cs, fault, TRUE)
        closed == Len(Completed(cs, f)) = 2
    IN Outcome(IF closed THEN [b EXCEPT !.serial_device.is_open = FALSE] ELSE b,
               Issued(cs, f), "ok")

disconnect(fault) ==
    /\ pc = "idle"
    /\ pc' = "returned"
    /\ \E r \in {control_board_disconnect(Pre, fault)} :
          /\ Becomes(r.b)
          /\ calls' = r.calls
          /\ last' = [op |-> "disconnect", fault |-> fault, result |-> r.result,
                      swallowed |-> (proxy = "unset"
                                     \/ FirstFailure(disconnect_calls(Pre), fault, TRUE) # 0),
                      pre |-> Pre]
    /\ UNCHANGED <<handler, step>>

----------------------------------------------------------------------------
(* The accessors *)

\* a method or attribute that answers from the object alone
Answer(op, value) ==
    /\ pc = "idle"
    /\ pc' = "returned"
    /\ calls' = <<>>
    /\ last' = [op |-> op, result |-> "ok", value |-> value, pre |-> Pre]
    /\ UNCHANGED <<serial_device, proxy, orphans, pins, handler, step>>

\* a method that asks the proxy for properties()
AskProxy(op, value, fault) ==
    /\ pc = "idle"
    /\ pc' = "returned"
    /\ RunProxyCalls(Tag(<<Call("properties", 0, 0, "proxy", 0)>>, op), fault,
                     [op |-> op, result |-> "", value |-> value, pre |-> Pre])
    /\ UNCHANGED <<serial_device, proxy, orphans, handler, step>>

number_of_channels == Answer("number_of_channels", NumberOfChannels)

hardware_version == Answer("hardware_version", "1.0.0")

\* the attributes __init__ sets: serial_number, max_waveform_voltage,
\* min_waveform_frequency, max_waveform_frequency
serial_number == Answer("serial_number", 0)

waveform_limits == Answer("waveform_limits", <<200, 0, 10000>>)

name(device_name, fault) == AskProxy("name", device_name, fault)

software_version(device_version, fault) == AskProxy("software_version", device_version, fault)

----------------------------------------------------------------------------
(* The plugin (src/__init__.py): OpenDropPlugin and its self.control_board *)

\* the version of the host package, as pkg_resources gives it
HostVersion == "1.2.0"

\* app_values: the serial_port and baud_rate options of the application
AppValues == [serial_port : {None} \cup Ports, baud_rate : {DefaultBaudRate}]

\* what surrounds a handler while it runs: the ports enumerated, the ports on
\* which Serial() raises, whether what it raises is a RuntimeError, the name and
\* the firmware version the device reports
Envs ==
    {e \in [ports : PortLists, bad : SUBSET Ports, runtime : BOOLEAN,
            name : DeviceNames, version : DeviceVersions] : e.bad = {} => ~e.runtime}

Responses == {"yes", "no"}

\* str(app_values['serial_port'])
Str(x) == IF x = None THEN "None" ELSE x

\* the fault of a connect of board b in surroundings e: Serial() raises when the
\* port it is called for is one of e.bad
OpenFault(b, serial_port, e) ==
    IF ResolvePort(serial_port, b.serial_device, e.ports).port \in e.bad
    THEN [stage |-> "Serial", pos |-> 1] ELSE NoFault

\* lines 184-208: OpenDropPlugin.connect.  One connect on the configured port;
\* if that raises a RuntimeError, one connect without a port; then the port of
\* the board is stored in the options.
OpenDropPlugin_connect(b, app_values, e) ==
    IF Len(e.ports) = 0
    THEN Outcome(b, <<>>, "Exception")
    ELSE The({
            The({IF tried.result = "ok"
                 THEN Outcome(tried.b,
                              tried.calls \o <<Call("set_app_values", 0, 0,
                                                    port(tried.b.serial_device), 0)>>,
                              "ok")
                 ELSE tried
                 : tried \in {IF first.result = "TransportError" /\ e.runtime
                              THEN The({Outcome(second.b, first.calls \o second.calls,
                                                second.result)
                                        : second \in {control_board_connect(
                                            first.b, None, app_values.baud_rate, e.ports,
                                            OpenFault(first.b, None, e))}})
                              ELSE first}})
            : first \in {control_board_connect(
                b, Str(app_values.serial_port), app_values.baud_rate, e.ports,
                OpenFault(b, Str(app_values.serial_port), e))}})

\* a method of the board that asks the proxy for properties()
Query(b, op) == ProxyCalls(b, Tag(<<Call("properties", 0, 0, "proxy", 0)>>, op), NoFault)

\* line 230: host_software_version != remote_software_version
needs_firmware_update_Always(host_software_version, remote_software_version) == TRUE

needs_firmware_update(host_software_version, remote_software_version) ==
    host_software_version # remote_software_version

\* lines 93-95: upload('uno', ..., self.port); the hardware version handed in
\* is not used
control_board_flash_firmware(b, version, uploaded) ==
    Outcome(b, <<Call("upload", 0, 0, port(b.serial_device), 0)>>,
            IF uploaded THEN "ok" ELSE "Exception")

\* lines 265-279: update_connection_status asks a connected board for its name
\* and its firmware version
update_connection_status(b) ==
    IF connected(b.serial_device)
    THEN LET n == Query(b, "name")
         IN IF n.result # "ok" THEN n
            ELSE LET v == Query(b, "software_version")
                 IN Outcome(b, n.calls \o v.calls, v.result)
    ELSE Outcome(b, <<>>, "ok")

RECURSIVE Repeat(_, _)
Repeat(cs, n) == IF n = 0 THEN <<>> ELSE cs \o Repeat(cs, n - 1)

\* what a stretch of a handler comes to: the board, the calls, the result, the
\* dialog the handler waits on, and the versions it compared, if it did
Stretch(b, cs, result, waits, compared, remote) ==
    [b |-> b, calls |-> cs, result |-> result, handler |-> waits,
     compared |-> compared, host |-> HostVersion, remote |-> remote]

\* line 241, in the check that ends and in each of the `pending` checks that
\* enclose it
Ends(b, cs, pending, compared, remote) ==
    LET u == update_connection_status(b)
    IN Stretch(b, cs \o Repeat(u.calls, pending + 1), u.result, NoHandler,
               compared, remote)

\* lines 221-241: check_device_name_and_version, up to its dialog or to its end.
\* `pending` enclosing checks wait for it; on_flash_firmware was entered `round`
\* times on the way.
check(b, app_values, e, pending, round) ==
    The({
        LET n == Query(c.b, "name")
            v == Query(c.b, "software_version")
        IN IF c.result # "ok"
           THEN Ends(c.b, c.calls, pending, FALSE, "")
           ELSE IF n.result # "ok" \/ e.name # "open_drop"
           THEN Ends(c.b, c.calls \o n.calls, pending, FALSE, "")
           ELSE IF v.result # "ok"
           THEN Ends(c.b, c.calls \o n.calls \o v.calls, pending, FALSE, "")
           ELSE IF needs_firmware_update(HostVersion, e.version)
           THEN Stretch(c.b,
                        c.calls \o n.calls \o v.calls
                            \o <<Call("yesno", 0, 0, "Update firmware?", 0)>>,
                        "waiting",
                        [at |-> "Update firmware?", connected |-> FALSE,
                         pending |-> pending, round |-> round,
                         host |-> HostVersion, remote |-> e.version],
                        TRUE, e.version)
           ELSE Ends(c.b, c.calls \o n.calls \o v.calls, pending, TRUE, e.version)
        : c \in {OpenDropPlugin_connect(b, app_values, e)}})

\* puts the calls cs before those of stretch k
After(cs, k) == [k EXCEPT !.calls = cs \o @]

\* lines 243-249: on_flash_firmware up to its dialog; a connect that raises is
\* logged and the check of line 263 follows
flash_begin(b, app_values, e, pending, round, host, remote) ==
    LET was == connected(b.serial_device)
        enter == <<Call("on_flash_firmware", 0, 0, "", 0)>>
    IN The({
        IF c.result # "ok"
        THEN After(enter \o c.calls, check(c.b, app_values, e, pending, round))
        ELSE Stretch(c.b,
                     enter \o c.calls \o <<Call("yesno", 0, 0, "Save configuration?", 0)>>,
                     "waiting",
                     [at |-> "Save configuration?", connected |-> was,
                      pending |-> pending, round |-> round,
                      host |-> host, remote |-> remote],
                     FALSE, "")
        : c \in {IF was THEN Outcome(b, <<>>, "ok")
                 ELSE OpenDropPlugin_connect(b, app_values, e)}})

\* lines 250-263: on_flash_firmware after its dialog: save_config() if asked
\* for, disconnect() if the board was not connected on entry, flash_firmware(),
\* and, whatever was raised, check_device_name_and_version()
flash_end(b, waits, response, saved, uploaded, app_values, e) ==
    LET save == IF response = "yes" THEN <<Call("save_config", 0, 0, "", 0)>> ELSE <<>>
    IN The({
        After(done.calls, check(done.b, app_values, e, waits.pending, waits.round))
        : done \in {IF response = "yes" /\ ~saved
                    THEN Outcome(b, save, "Exception")
                    ELSE The({
                        The({Outcome(f.b, save \o d.calls \o f.calls, f.result)
                             : f \in {control_board_flash_firmware(d.b, "1.0.0", uploaded)}})
                        : d \in {IF waits.connected THEN Outcome(b, <<>>, "ok")
                                 ELSE control_board_disconnect(b, NoFault)}})}})

\* a stretch of handler `op` runs on self
Runs(op, k, app_values, e, response) ==
    /\ k.b.orphans <= MaxOrphans
    /\ Becomes(k.b)
    /\ calls' = k.calls
    /\ handler' = k.handler
    /\ pc' = "returned"
    /\ UNCHANGED step
    /\ last' = [op |-> op, app_values |-> app_values, env |-> e, response |-> response,
                result |-> k.result, compared |-> k.compared, host |-> k.host,
                remote |-> k.remote, waited |-> handler, pre |-> Pre]

\* on_plugin_enable calls it
check_device_name_and_version(app_values, e) ==
    /\ pc = "idle"
    /\ handler = NoHandler
    /\ \E k \in {check(Pre, app_values, e, 0, 0)} :
            Runs("check_device_name_and_version", k, app_values, e, "")

\* the menu item calls it
on_flash_firmware(app_values, e) ==
    /\ pc = "idle"
    /\ handler = NoHandler
    /\ \E k \in {flash_begin(Pre, app_values, e, 0, 1, "", "")} :
            Runs("on_flash_firmware", k, app_values, e, "")

\* the user answers the dialog of line 231
yesno_update_firmware(response, app_values, e) ==
    /\ pc = "idle"
    /\ handler.at = "Update firmware?"
    /\ response = "yes" => handler.round < MaxRounds
    /\ \E k \in {IF response = "yes"
                  THEN flash_begin(Pre, app_values, e, handler.pending + 1,
                                   handler.round + 1, handler.host, handler.remote)
                  ELSE Ends(Pre, <<>>, handler.pending, FALSE, "")} :
            Runs("yesno_update_firmware", k, app_values, e, response)

\* the user answers the dialog of line 248
yesno_save_configuration(response, saved, uploaded, app_values, e) ==
    /\ pc = "idle"
    /\ handler.at = "Save configuration?"
    /\ \E k \in {flash_end(Pre, handler, response, saved, uploaded, app_values, e)} :
            Runs("yesno_save_configuration", k, app_values, e, response)

----------------------------------------------------------------------------
(* The plugin's step handlers (src/__init__.py, lines 282-373) *)

\* dmf_options.state_of_channels of a step: shorter than, as long as and longer
\* than the board
StepArrays ==
    {ArrayOf(1, {0}), ArrayOf(NumberOfChannels, {}),
     ArrayOf(NumberOfChannels, {0, NumberOfChannels - 1}),
     ArrayOf(NumberOfChannels + 1, {NumberOfChannels})}

\* lines 304-310: the state cut or zero-padded to max_channels entries
state_of_channels(state, max_channels) ==
    IF Len(state) > max_channels THEN SubSeq(state, 1, max_channels)
    ELSE IF Len(state) < max_channels
         THEN state \o [k \in 1..(max_channels - Len(state)) |-> 0]
         ELSE state

\* np.zeros(self.control_board.number_of_channels())
zeros(n) == [k \in 1..n |-> 0]

\* what a helper of the plugin comes to: the calls made and the step state
Helped(cs, st) == [calls |-> cs, step |-> st]

\* the timeout source is left pending
kill_running_step_KeepsSource(st) ==
    Helped(IF st.timeout_id # 0
           THEN <<Call("source_remove", 0, 0, "gobject", st.timeout_id)>> ELSE <<>>,
           st)

\* lines 340-344: _kill_running_step removes the source self.timeout_id names;
\* self.timeout_id stays as it is
kill_running_step(st) ==
    Helped(IF st.timeout_id # 0
           THEN <<Call("source_remove", 0, 0, "gobject", st.timeout_id)>> ELSE <<>>,
           IF st.timeout_id # 0 /\ st.timer = st.timeout_id
           THEN [st EXCEPT !.timer = 0] ELSE st)

\* lines 331-338: step_complete emits on_step_complete while a protocol runs or
\* in realtime mode; the plugin's own on_step_complete then sets
\* self.timeout_id to None
step_complete(st) ==
    IF st.running \/ st.realtime_mode
    THEN Helped(<<Call("emit_signal", 0, 0, "on_step_complete", 0)>>,
                [st EXCEPT !.timeout_id = 0])
    ELSE Helped(<<>>, st)

\* lines 312-319: set_frequency and set_voltage are emitted, then the board is
\* written
drive_calls(state) ==
    <<Call("emit_signal", 0, 0, "set_frequency", 0),
      Call("emit_signal", 0, 0, "set_voltage", 0)>>
    \o set_state_of_all_channels_calls(state)

\* the board is written only where the handler's condition holds
Driven(condition, cs, fault) ==
    IF condition THEN ProxyCalls(Pre, cs, fault) ELSE Outcome(Pre, <<>>, "ok")

\* a step handler has run: helper k first, then the board write w, then helper d
Handled(op, k, w, d, state_array, fault) ==
    /\ Becomes(w.b)
    /\ calls' = k.calls \o w.calls \o d.calls
    /\ step' = d.step
    /\ pc' = "returned"
    /\ last' = [op |-> op, state_array |-> state_array, fault |-> fault,
                result |-> w.result, was |-> step, pre |-> Pre]
    /\ UNCHANGED handler

\* lines 351-361: the protocol controller sets app.running and signals
\* on_protocol_run; the handler only logs
on_protocol_run ==
    /\ pc = "idle"
    /\ ~step.running
    /\ Handled("on_protocol_run", Helped(<<>>, step), Outcome(Pre, <<>>, "ok"),
               Helped(<<>>, [step EXCEPT !.running = TRUE]), <<>>, NoFault)

\* lines 282-329.  An error of the board write leaves the handler before
\* timeout_add and before step_complete.
on_step_run(state_array, fault) ==
    /\ pc = "idle"
    /\ step.running => step.ids < MaxTimers
    /\ \E k \in {kill_running_step(step)} :
       \E w \in {Driven(connected(serial_device) /\ (step.realtime_mode \/ step.running),
                        drive_calls(state_of_channels(state_array, NumberOfChannels)),
                        fault)} :
       \E d \in {IF w.result # "ok" THEN Helped(<<>>, k.step)
                 ELSE IF step.running
                 THEN Helped(<<Call("timeout_add", 0, 0, "gobject", step.ids + 1)>>,
                             [k.step EXCEPT !.ids = step.ids + 1,
                                            !.timeout_id = step.ids + 1,
                                            !.timer = step.ids + 1])
                 ELSE step_complete(k.step)} :
            Handled("on_step_run", k, w, d, state_array, fault)

\* lines 346-349: the pending timeout fires, once
callback_step_completed ==
    /\ pc = "idle"
    /\ step.timer # 0
    /\ \E d \in {step_complete([step EXCEPT !.timer = 0])} :
            Handled("_callback_step_completed", Helped(<<>>, step),
                    Outcome(Pre, <<>>, "ok"), d, <<>>, NoFault)

\* lines 363-373: the protocol controller clears app.running and signals
\* on_protocol_pause
on_protocol_pause(fault) ==
    /\ pc = "idle"
    /\ step.running
    /\ \E k \in {kill_running_step([step EXCEPT !.running = FALSE])} :
       \E w \in {Driven(connected(serial_device) /\ ~step.realtime_mode,
                        set_state_of_all_channels_calls(zeros(NumberOfChannels)), fault)} :
            Handled("on_protocol_pause", k, w, Helped(<<>>, k.step),
                    zeros(NumberOfChannels), fault)

\* lines 174-182: on_app_options_changed for the application's own options,
\* realtime_mode among them
on_app_options_changed(realtime_mode, fault) ==
    /\ pc = "idle"
    /\ \E k \in {Helped(<<>>, [step EXCEPT !.realtime_mode = realtime_mode])} :
       \E w \in {Driven(connected(serial_device) /\ ~realtime_mode /\ ~step.running,
                        set_state_of_all_channels_calls(zeros(NumberOfChannels)), fault)} :
            Handled("on_app_options_changed", k, w, Helped(<<>>, k.step),
                    zeros(NumberOfChannels), fault)

\* the plugin enabled: no board was found, or the board is connected on COM1, all
\* off or with the first channel on
StepInit ==
    /\ \/ /\ serial_device = NoDevice
          /\ proxy = "unset"
          /\ pins = PowerOnPins
       \/ /\ serial_device = Serial("COM1", DefaultBaudRate)
          /\ proxy = "current"
          /\ pins \in {IdlePins, ApplyWrites(IdlePins, set_channel_state(0, 1), 1)}
    /\ orphans = 0
    /\ calls = <<>>
    /\ last = NoCall
    /\ pc = "idle"
    /\ handler = NoHandler
    /\ step = NoStep

----------------------------------------------------------------------------
(* The caller takes the result *)

Return ==
    /\ pc = "returned"
    /\ pc' = "idle"
    /\ calls' = <<>>
    /\ last' = NoCall
    /\ UNCHANGED <<serial_device, proxy, orphans, pins, handler, step>>

Next ==
    \/ pc = "idle" /\ \E serial_port \in PortArgs, rate \in BaudRates :
            \E ports \in EnumeratedBy(serial_port) :
                \E fault \in FaultsOf(serial_port, rate, ports) :
                    connect(serial_port, rate, ports, fault)
    \/ \E fault \in DisconnectFaults : disconnect(fault)
    \/ pc = "idle" /\ \E state_array \in SessionArrays, fault \in WriteFaults :
            set_state_of_all_channels(state_array, fault)
    \/ number_of_channels
    \/ hardware_version
    \/ serial_number
    \/ waveform_limits
    \/ \E device_name \in DeviceNames, fault \in QueryFaults : name(device_name, fault)
    \/ \E device_version \in DeviceVersions, fault \in QueryFaults :
            software_version(device_version, fault)
    \/ Return

Spec == Init /\ [][Next]_vars

MapperNext ==
    \/ pc = "idle" /\ \E channel \in 0..(MaxLen - 1), state \in {0, 1} :
            call_set_channel_state(channel, state)
    \/ call_clear_all_channels
    \/ pc = "idle" /\ \E state_array \in MapperArrays :
            set_state_of_all_channels(state_array, NoFault)

MapperSpec == MapperInit /\ [][MapperNext]_vars

PluginNext ==
    \/ pc = "idle" /\ handler = NoHandler /\ \E app_values \in AppValues, e \in Envs :
            check_device_name_and_version(app_values, e)
    \/ pc = "idle" /\ handler = NoHandler /\ \E app_values \in AppValues, e \in Envs :
            on_flash_firmware(app_values, e)
    \/ pc = "idle" /\ handler.at = "Update firmware?"
            /\ \E response \in Responses, app_values \in AppValues, e \in Envs :
                    yesno_update_firmware(response, app_values, e)
    \/ pc = "idle" /\ handler.at = "Save configuration?"
            /\ \E response \in Responses, saved, uploaded \in BOOLEAN :
                    \E app_values \in AppValues, e \in Envs :
                        yesno_save_configuration(response, saved, uploaded, app_values, e)
    \/ Return

PluginSpec == Init /\ [][PluginNext]_vars

StepNext ==
    \/ on_protocol_run
    \/ pc = "idle" /\ \E state_array \in StepArrays, fault \in WriteFaults :
            on_step_run(state_array, fault)
    \/ callback_step_completed
    \/ pc = "idle" /\ \E fault \in WriteFaults : on_protocol_pause(fault)
    \/ pc = "idle" /\ \E realtime_mode \in BOOLEAN, fault \in WriteFaults :
            on_app_options_changed(realtime_mode, fault)
    \/ Return

StepSpec == StepInit /\ [][StepNext]_vars

----------------------------------------------------------------------------
(* What the claims speak of *)

\* the digital writes a call made through set_gate / through set_source
GateWrites == {k \in DOMAIN calls : calls[k].fn = "digital_write" /\ calls[k].via = "set_gate"}
SourceWrites == {k \in DOMAIN calls : calls[k].fn = "digital_write" /\ calls[k].via = "set_source"}

Channels == 0..(NumberOfChannels - 1)

\* the gate and the source a channel is wired to, as the specification tabulates
\* them: channels 0..3 on gate 0 with sources 1, 3, 6, 8; then eight channels per
\* gate, 4..11 on gate 1, 12..19 on gate 2, ..., 60..67 on gate 8
WiredGate(c) == IF c < 4 THEN 0 ELSE CHOOSE g \in 1..8 : 8 * g - 4 <= c /\ c <= 8 * g + 3
WiredSource(c) == IF c < 4 THEN <<1, 3, 6, 8>>[c + 1] ELSE c - (8 * WiredGate(c) - 4) + 1

\* ActiveHighIdle wiring: a channel is energized when its gate pin is HIGH and
\* its source pin is LOW
Energized(p, c) == p[2 + WiredGate(c)] = HIGH /\ p[10 + WiredSource(c)] = LOW

\* a state array resized to the channel count: zero-padded or truncated
Resized(state_array) ==
    [k \in 1..NumberOfChannels |-> IF k <= Len(state_array) THEN state_array[k] ELSE 0]

----------------------------------------------------------------------------
(* The mapper claims, under MapperSpec *)

\* C1: for every channel c in 0..67 and either state, set_channel_state(c, state)
\* makes exactly one gate write and one source write, the gate at level state,
\* the source at its negation, on the gate and the source the channel is wired to.
C1_OneGateOneSourceWrite ==
    (last.op = "set_channel_state" /\ last.channel \in Channels) =>
        /\ Len(calls) = 2
        /\ Cardinality(GateWrites) = 1
        /\ Cardinality(SourceWrites) = 1
        /\ \A g \in GateWrites, s \in SourceWrites :
                /\ calls[g].level = last.state
                /\ calls[s].level = 1 - calls[g].level
                /\ calls[g].i = WiredGate(last.channel)
                /\ calls[s].i = WiredSource(last.channel)

\* C1 witness: set_channel_state(3, false) has written source 8 HIGH and gate 0 LOW
C1_Witness ==
    /\ last.op = "set_channel_state" /\ last.channel = 3 /\ last.state = 0
    /\ \E g \in GateWrites, s \in SourceWrites :
            calls[s].i = 8 /\ calls[s].level = HIGH /\ calls[g].i = 0 /\ calls[g].level = LOW

\* C2: from any prior pin pattern clear_all_channels() writes each of the gates
\* 0..8 and each of the sources 1..8 and leaves all gates LOW and all sources
\* HIGH, so that no channel of 0..67 is energized.
C2_ClearWritesIdlePattern ==
    last.op = "clear_all_channels" =>
        /\ last.result = "ok"
        /\ {calls[k].i : k \in GateWrites} = 0..8
        /\ {calls[k].i : k \in SourceWrites} = 1..8
        /\ Len(calls) = 17
        /\ \A i \in 0..8 : pins[2 + i] = LOW
        /\ \A i \in 1..8 : pins[10 + i] = HIGH
        /\ \A c \in Channels : ~Energized(pins, c)

\* C2 witness: clear_all_channels() has run on a board that had channel 67
\* energized
C2_Witness ==
    /\ last.op = "clear_all_channels"
    /\ Energized(last.pre.pins, 67)
    /\ ~Energized(pins, 67)

\* C3: set_state_of_all_channels makes, for an array shorter than 68, the calls
\* it makes for the array zero-padded to 68 and, for an array longer than 68, the
\* calls it makes for the array truncated to 68.
C3_SameAsResized ==
    last.op = "set_state_of_all_channels" =>
        calls = set_state_of_all_channels_calls(Resized(last.state_array))

\* C4: whatever the length of the array, set_state_of_all_channels never calls
\* set_channel_state for a channel outside 0..67 and never writes a gate above 8.
C4_ChannelsInRange ==
    last.op = "set_state_of_all_channels" =>
        \A k \in DOMAIN calls :
            /\ calls[k].by = "set_channel_state" => calls[k].channel \in Channels
            /\ calls[k].via = "set_gate" => calls[k].i <= 8

\* C5: in every call of set_state_of_all_channels the 9 gate writes and the 8
\* source writes of clear_all_channels come before the first write of
\* set_channel_state, and after them the board is all-off.
C5_ClearBeforePattern ==
    last.op = "set_state_of_all_channels" =>
        /\ Len(calls) >= 17
        /\ \A k \in DOMAIN calls : (calls[k].by = "clear_all_channels") = (k <= 17)
        /\ \A k \in DOMAIN calls : k > 17 => calls[k].by = "set_channel_state"
        /\ {calls[k].i : k \in {j \in GateWrites : j <= 17}} = 0..8
        /\ {calls[k].i : k \in {j \in SourceWrites : j <= 17}} = 1..8
        /\ LET cleared == ApplyWrites(last.pre.pins, SubSeq(calls, 1, 17), 1)
           IN cleared = IdlePins /\ \A c \in Channels : ~Energized(cleared, c)

\* C5 witness: a pattern with two channels on has been applied to a board that
\* had channel 0 energized
C5_Witness ==
    /\ last.op = "set_state_of_all_channels"
    /\ Energized(last.pre.pins, 0)
    /\ Len(calls) = 17 + 4
    /\ calls[18].by = "set_channel_state"

----------------------------------------------------------------------------
(* The session claims, under Spec *)

IdentityQueries ==
    {"name", "hardware_version", "software_version", "serial_number",
     "number_of_channels", "waveform_limits"}

\* C6: set_state_of_all_channels called while connected() is false fails and
\* issues no digital_write, on a board never connected and on a board
\* disconnected.
C6_NotConnectedNoIO ==
    (last.op = "set_state_of_all_channels" /\ ~connected(last.pre.serial_device)) =>
        /\ last.result # "ok"
        /\ \A k \in DOMAIN calls : calls[k].fn # "digital_write"

\* C7: every identity query fails while the session is disconnected: no value is
\* returned and the proxy is not queried.
C7_IdentityNeedsConnection ==
    (last.op \in IdentityQueries /\ ~connected(last.pre.serial_device)) =>
        /\ last.result # "ok"
        /\ calls = <<>>

\* C8: connect(p, b) on a session connected on (p, b) is a no-op: no close, no
\* open, no pin_mode, no digital_write, and the session as it was.
C8_ReconnectSameIsNoOp ==
    (/\ last.op = "connect"
     /\ connected(last.pre.serial_device)
     /\ last.serial_port = last.pre.serial_device.port
     /\ last.baud_rate = last.pre.serial_device.baudrate) =>
        /\ calls = <<>>
        /\ last.result = "ok"
        /\ serial_device = last.pre.serial_device
        /\ proxy = last.pre.proxy
        /\ orphans = last.pre.orphans
        /\ pins = last.pre.pins

\* C8 witness: connect("COM2", 9600) has returned on a session that was connected
\* on COM2 at 9600
C8_Witness ==
    /\ last.op = "connect"
    /\ last.serial_port = "COM2" /\ last.baud_rate = 9600
    /\ connected(last.pre.serial_device)
    /\ last.pre.serial_device.port = "COM2" /\ last.pre.serial_device.baudrate = 9600

C10_FailedConnectLeavesDisconnected ==
    (last.op = "connect" /\ last.result = "TransportError") =>
        ~connected(serial_device)

\* the Serial handles open at this moment: the one self.serial_device names, if
\* open, and those left behind
OpenHandles == orphans + (IF connected(serial_device) THEN 1 ELSE 0)

\* C11: after any sequence of connect and disconnect calls at most one Serial
\* handle opened by the session is open; connect() to another (port, baud rate)
\* while connected does not leave the earlier handle open beside the new one.
C11_AtMostOneOpenHandle == OpenHandles <= 1

\* C12: disconnect() never raises and, from every state, also when terminate()
\* or close() fails, leaves connected() false.
C12_DisconnectAlwaysDisconnects ==
    (pc = "returned" /\ last.op = "disconnect") =>
        /\ last.result = "ok"
        /\ ~connected(serial_device)

\* the port the resolution order of the specification gives: the explicit
\* argument, else the port bound at the time of the call, else the first
\* enumerated port, else none
BoundPort(dev) == IF (~dev.is_none) /\ dev.is_open THEN dev.port ELSE None
ResolutionOrder(serial_port, dev, ports) ==
    IF serial_port \notin {None, "None"} THEN serial_port
    ELSE IF BoundPort(dev) # None THEN BoundPort(dev)
    ELSE IF Len(ports) > 0 THEN Head(ports)
    ELSE None

ClearGateWrites == {k \in GateWrites : calls[k].by = "clear_all_channels"}
ClearSourceWrites == {k \in SourceWrites : calls[k].by = "clear_all_channels"}

\* C14: clear_all_channels(), whose idle pattern is gates LOW and sources HIGH
\* (ActiveHighIdle), makes all of its 8 source writes before all of its 9 gate
\* writes.
C14_ClearSourcesBeforeGates ==
    (last.op = "clear_all_channels" /\ last.result = "ok") =>
        /\ Cardinality(ClearSourceWrites) = 8
        /\ Cardinality(ClearGateWrites) = 9
        /\ \A s \in ClearSourceWrites, g \in ClearGateWrites : s < g

\* C15: the two writes of every set_channel_state come in the family order of
\* the writes of clear_all_channels: source before gate in the one exactly when
\* sources before gates in the other.
C15_SameFamilyOrder ==
    (last.op = "set_state_of_all_channels" /\ last.result = "ok") =>
        \A c \in Channels :
            \A s \in {k \in SourceWrites : calls[k].by = "set_channel_state"
                                            /\ calls[k].channel = c} :
                \A g \in {k \in GateWrites : calls[k].by = "set_channel_state"
                                              /\ calls[k].channel = c} :
                    \A cs \in ClearSourceWrites, cg \in ClearGateWrites :
                        (s < g) = (cs < cg)

\* the calls of kind fn among the calls
CallsOf(fn) == {k \in DOMAIN calls : calls[k].fn = fn}

\* C16: a connect() that opens the transport calls Serial(), then sleeps, then
\* calls pin_mode(pin, OUTPUT) for the pins 2..18, then clears the board; every
\* digital_write comes after the 17 pins are outputs, and a connect() that
\* returns successfully leaves the idle pattern.
C16_OpenSettleConfigureClear ==
    (pc = "returned" /\ last.op = "connect" /\ CallsOf("Serial") # {}) =>
        /\ \A o \in CallsOf("Serial"), d \in CallsOf("sleep") : o < d
        /\ \A d \in CallsOf("sleep"), m \in CallsOf("pin_mode") : d < m
        /\ \A m \in CallsOf("pin_mode") : calls[m].level = OUTPUT
        /\ \A w \in CallsOf("digital_write") :
                /\ {calls[m].pin : m \in {j \in CallsOf("pin_mode") : j < w}} = 2..18
                /\ CallsOf("sleep") # {}
                /\ calls[w].by = "clear_all_channels"
        /\ last.result = "ok" =>
                /\ Cardinality(CallsOf("sleep")) = 1
                /\ Cardinality(CallsOf("pin_mode")) = 17
                /\ Cardinality(CallsOf("digital_write")) = 17
                /\ pins = IdlePins
                /\ \A c \in Channels : ~Energized(pins, c)

\* C16 witness: connect("COM1") has succeeded on a board that was at power-on
C16_Witness ==
    /\ pc = "returned" /\ last.op = "connect"
    /\ last.serial_port = "COM1"
    /\ last.pre.pins = PowerOnPins
    /\ last.result = "ok"
    /\ CallsOf("Serial") # {}
    /\ Len(calls) = 3 + 17 + 17

\* C19: after set_state_of_all_channels(X) on a connected board the channels of
\* 0..67 that are energized are exactly those whose entry in X is truthy.
C19_EnergizedIsTruthy ==
    (/\ last.op = "set_state_of_all_channels"
     /\ last.result = "ok"
     /\ Len(last.state_array) = NumberOfChannels) =>
        {c \in Channels : Energized(pins, c)}
            = {c \in Channels : last.state_array[c + 1] # 0}

----------------------------------------------------------------------------
(* The plugin claims, under PluginSpec *)

\* C17: whenever upload is called, the session is connected and the port handed
\* to it is the port of the session, never None.
C17_FlashOnResolvedPort ==
    \A k \in CallsOf("upload") : calls[k].via # None

CheckStretches ==
    {"check_device_name_and_version", "on_flash_firmware", "yesno_update_firmware",
     "yesno_save_configuration"}

\* C18: the check asks "Update firmware?" exactly when the host version and the
\* device version it read differ; reading and comparing them connects nothing,
\* flashes nothing and writes nothing; on_flash_firmware is entered from the
\* check only after the versions differed and the user answered yes.
C18_UpdateIffVersionsDiffer ==
    (pc = "returned" /\ last.op \in CheckStretches) =>
        /\ last.compared =>
            /\ (handler.at = "Update firmware?") = (last.host # last.remote)
            /\ (last.host = "1.2.0" /\ last.remote = "1.2.0") => handler = NoHandler
            /\ (last.host = "1.2.0" /\ last.remote = "1.1.9") => handler.at = "Update firmware?"
            /\ CallsOf("set_app_values") # {}
            /\ \A k \in DOMAIN calls :
                    (\A m \in CallsOf("set_app_values") : m < k) =>
                        calls[k].fn \in {"properties", "yesno"}
        /\ ~last.compared => handler.at # "Update firmware?"
        /\ last.op = "check_device_name_and_version" =>
                CallsOf("upload") = {} /\ CallsOf("on_flash_firmware") = {}
        /\ (last.op = "yesno_update_firmware" /\ CallsOf("on_flash_firmware") # {}) =>
                /\ last.response = "yes"
                /\ last.waited.host # last.waited.remote
        /\ (CallsOf("upload") # {} /\ last.waited.pending >= 1) =>
                /\ last.op = "yesno_save_configuration"
                /\ last.waited.host # last.waited.remote

\* C18 witness: the check found 1.1.9 on the device, the user has answered yes
\* and on_flash_firmware, entered from the check, waits on its dialog
C18_Witness ==
    /\ pc = "returned" /\ last.op = "yesno_update_firmware"
    /\ last.response = "yes"
    /\ last.waited.host = "1.2.0" /\ last.waited.remote = "1.1.9"
    /\ CallsOf("on_flash_firmware") # {}
    /\ handler.at = "Save configuration?"

\* C20: when the connect of the plugin fails on the configured port, a Serial()
\* is tried on every other enumerated port until one succeeds or all are tried.
C20_TriesEveryOtherPort ==
    (/\ pc = "returned" /\ last.op = "check_device_name_and_version"
     /\ ~connected(last.pre.serial_device)
     /\ last.app_values.serial_port \in last.env.bad) =>
        \/ connected(serial_device)
        \/ \A i \in DOMAIN last.env.ports :
                \E k \in CallsOf("Serial") : calls[k].via = last.env.ports[i]

----------------------------------------------------------------------------
(* The mapping as a whole, under MapperSpec *)

\* the (gate index, source index) pair the calls cs write
PairOf(cs) ==
    <<{cs[k].i : k \in {j \in DOMAIN cs : cs[j].via = "set_gate"}},
      {cs[k].i : k \in {j \in DOMAIN cs : cs[j].via = "set_source"}}>>

\* C23: the pair (gate, source) set_channel_state writes for a channel of 0..67
\* has its gate in 0..8 and its source in 1..8, and no other channel of 0..67
\* is written on the same pair.
C23_MappingInjective ==
    (last.op = "set_channel_state" /\ last.channel \in Channels) =>
        /\ \A g \in GateWrites : calls[g].i \in 0..8
        /\ \A s \in SourceWrites : calls[s].i \in 1..8
        /\ \A d \in Channels \ {last.channel} :
                PairOf(set_channel_state(d, last.state)) # PairOf(calls)

\* C23 witness: set_channel_state(67, true) has written gate 8 and source 8, the
\* last pair
C23_Witness ==
    /\ last.op = "set_channel_state" /\ last.channel = 67 /\ last.state = 1
    /\ PairOf(calls) = <<{8}, {8}>>

\* the digital writes the claim speaks of: those of clear_all_channels and those
\* of set_channel_state for a channel of 0..67
MapperWrites ==
    {k \in CallsOf("digital_write") :
        \/ calls[k].by = "clear_all_channels"
        \/ calls[k].by = "set_channel_state" /\ calls[k].channel \in Channels}

\* C24: every such write is on a pin of 2..18, a gate write on a pin of 2..10
\* and a source write on a pin of 11..18.
C24_WritesOnOutputPins ==
    \A k \in MapperWrites :
        /\ calls[k].pin \in 2..18
        /\ calls[k].via \in {"set_gate", "set_source"}
        /\ calls[k].via = "set_gate" => calls[k].pin \in 2..10
        /\ calls[k].via = "set_source" => calls[k].pin \in 11..18

\* C24 witness: set_state_of_all_channels with the channels 0 and 67 on has
\* written the lowest gate pin and the highest source pin after the clear
C24_Witness ==
    /\ last.op = "set_state_of_all_channels"
    /\ Len(last.state_array) = NumberOfChannels
    /\ last.state_array[1] = 1 /\ last.state_array[NumberOfChannels] = 1
    /\ \E k \in MapperWrites : calls[k].by = "set_channel_state" /\ calls[k].pin = 2
    /\ \E k \in MapperWrites : calls[k].by = "set_channel_state" /\ calls[k].pin = 18

----------------------------------------------------------------------------
(* The step claims, under StepSpec *)

\* the handler that has run emitted on_step_complete
EmittedStepComplete ==
    \E k \in CallsOf("emit_signal") : calls[k].via = "on_step_complete"

\* C21: every on_step_run handled while a protocol runs or in realtime mode is
\* followed by on_step_complete: when it returns it has emitted the signal or
\* the timeout that will emit it is pending (nothing else ever emits it).
C21_StepRunLeadsToStepComplete ==
    (/\ pc = "returned" /\ last.op = "on_step_run"
     /\ (last.was.running \/ last.was.realtime_mode)) =>
        EmittedStepComplete \/ step.timer # 0

\* the board write of the handler that has run is the all-off write: 68 zeros,
\* writes of clear_all_channels only, and the idle pattern once they are through
AllOffWrite ==
    /\ last.state_array = [k \in 1..68 |-> 0]
    /\ CallsOf("digital_write") # {}
    /\ \A k \in CallsOf("digital_write") : calls[k].by = "clear_all_channels"
    /\ last.result = "ok" =>
            /\ Cardinality(CallsOf("digital_write")) = 17
            /\ pins = IdlePins
            /\ \A c \in Channels : ~Energized(pins, c)

\* C22: on a connected board and out of realtime mode, on_protocol_pause, and
\* on_app_options_changed while no protocol runs, make the all-off write;
\* on_protocol_pause leaves no timeout pending and emits no on_step_complete,
\* and no timeout is ever pending while no protocol runs.
C22_PauseTurnsOffAndCancels ==
    /\ step.timer # 0 => step.running
    /\ (pc = "returned" /\ last.op = "on_protocol_pause") =>
            /\ step.timer = 0
            /\ ~EmittedStepComplete
            /\ (connected(last.pre.serial_device) /\ ~last.was.realtime_mode)
                    => AllOffWrite
    /\ (/\ pc = "returned" /\ last.op = "on_app_options_changed"
        /\ connected(last.pre.serial_device)
        /\ ~step.realtime_mode /\ ~step.running) => AllOffWrite

\* C22 witness: a protocol paused while a step's timeout was pending, on a board
\* that had channel 0 energized
C22_Witness ==
    /\ pc = "returned" /\ last.op = "on_protocol_pause"
    /\ last.was.timer # 0
    /\ Energized(last.pre.pins, 0)
    /\ last.result = "ok"
    /\ step.timer = 0
    /\ pins = IdlePins

====
